---- MODULE Spec2Model ----
(***************************************************************************)
(* Model of targetsync's Syncer (src/sync.go): the leader runner           *)
(* (Syncer.Run), the reconciliation loop (Syncer.runLeader) and the        *)
(* delayed-removal loop (Syncer.bgRemove), one instance of the last two    *)
(* per leadership scope.  Time is the wall clock in whole seconds, the     *)
(* unit of time.Now().Unix().                                              *)
(***************************************************************************)
EXTENDS Integers, Sequences, FiniteSets, TLC

\* ---------------------------------------------------------------- bounds
MaxScopes == 2      \* `true` election signals the Locker delivers
MaxTime == 2        \* last second of the wall clock that is explored
MaxSnaps == 2       \* snapshots the source delivers within one leader term
MaxFails == 1       \* failing calls of the source and destination backends
RemoveDelay == 1    \* Config.RemoveDelay, in seconds

\* ------------------------------------------------------ program constants
defaultDuration == 3600   \* time.Hour, in seconds
ChanCap == 100            \* capacity of removeCh and addCh

Scopes == 1..MaxScopes
IPs == {1, 2}
Ports == {80, 81}

\* A Target: IP and Port.  Only the first IP is offered with both ports.
Targets == {t \in [IP : IPs, Port : Ports] : t.Port = 80 \/ t.IP = 1}

\* Target.Key(): the identity of a target, derived from the IP alone.
Key(t) == t.IP

\* A target list whose members have distinct IPs (the content of the maps
\* runLeader builds from a list; a later duplicate overwrites an earlier one).
TargetSets == {S \in SUBSET Targets : \A a, b \in S : a.IP = b.IP => a = b}

KeysOf(S) == {t.IP : t \in S}

\* The snapshots the source delivers: it reports every target on port 80.
SrcSets == {S \in TargetSets : \A t \in S : t.Port = 80}

VARIABLES
    clock,            \* time.Now().Unix()
    dst,              \* the destination's registered targets
    budget,           \* what the environment does at most: scopes, snaps, fails, ips
    snaps,            \* snapshots delivered by the source so far
    fails,            \* failed backend calls so far
    runPc,            \* Run: "lock", "loop", "done"
    runErr,           \* Run's return value: "none", "lock", "ctx"
    parentDone,       \* ctx of Run is cancelled
    started,          \* number of runLeader goroutines started by Run
    leaderCtxCancel,  \* scope whose cancel func Run holds (0: nil)
    leaderDone,       \* scopes whose leaderCtx was cancelled by Run
    deposed,          \* scopes cancelled by Run's reaction to a false signal
    rlPc,             \* runLeader position, per scope
    srcMap,           \* runLeader: srcMap of the current snapshot
    dstMap,           \* runLeader: dstMap of the current snapshot
    todo,             \* runLeader: keys the current range loop has yet to visit
    hostsToAdd,       \* runLeader: hostsToAdd
    rlErr,            \* runLeader's return value: "none", "subscribe", "get", "add", "ctx"
    addCh,            \* per scope: buffered add-notifications
    removeCh,         \* per scope: buffered removal requests
    addClosed,        \* per scope: close(addCh) has run
    removeClosed,     \* per scope: close(removeCh) has run
    bgPc,             \* bgRemove position: "idle", "select", "stuck", "done", "panic"
    itemMap,          \* bgRemove: key -> item of the priority queue
    q,                \* bgRemove: the priority queue (items with id, tgt, at)
    nextItem,         \* bgRemove: id the next pushed item gets
    timerSet,         \* bgRemove: t was (re)set and its tick is not yet received
    timerAt,          \* bgRemove: second at which t fires
    addLog,           \* history: AddTargets calls
    removeLog,        \* history: RemoveTargets calls
    sinceAt,          \* history: per scope, key -> second its pending absence began
    flapped,          \* history: per scope, keys that came back within RemoveDelay
    inSync,           \* history: per scope, every snapshot so far found no diff
    snapNotif,        \* history: add-notifications sent for the current snapshot
    snapReq,          \* history: removal requests sent for the current snapshot
    snapAdd,          \* history: AddTargets calls issued for the current snapshot
    nRecv,            \* history: snapshots received, per scope
    nGet,             \* history: GetTargets calls, per scope
    debounced         \* history: queue items an add-notification arrived for in time

envVars == <<clock, dst, budget, snaps, fails>>
runVars == <<runPc, runErr, parentDone, started, leaderCtxCancel, leaderDone, deposed>>
rlVars == <<rlPc, srcMap, dstMap, todo, hostsToAdd, rlErr>>
chVars == <<addCh, removeCh, addClosed, removeClosed>>
bgVars == <<bgPc, itemMap, q, nextItem, timerSet, timerAt>>
snapVars == <<sinceAt, flapped, inSync, snapNotif, snapReq, snapAdd, nRecv, nGet>>
logVars == <<addLog, removeLog, debounced>>
vars == <<envVars, runVars, rlVars, chVars, bgVars, snapVars, logVars>>

\* ------------------------------------------------------------- contexts
\* leaderCtx of scope s is done: cancelled by Run, or its parent is done.
LeaderCtxDone(s) == parentDone \/ s \in leaderDone

\* The ctx runLeader derives from leaderCtx: also done once runLeader's
\* deferred cancel() has run.
CtxDone(s) == LeaderCtxDone(s) \/ rlPc[s] = "done"

\* ------------------------------------------------------- the destination
\* TargetDestination.AddTargets succeeding: the targets are registered.
DstAdd(d, hosts) == {t \in d : t.IP \notin KeysOf(hosts)} \cup hosts

\* TargetDestination.RemoveTargets succeeding: the target is deregistered.
DstRemove(d, target) == {t \in d : Key(t) # Key(target)}

\* A backend call may fail while the failure budget lasts.
Outcomes == IF fails < budget.fails THEN {TRUE, FALSE} ELSE {TRUE}

\* ------------------------------------------------------------------ Init
InitWith(d0, b) ==
    /\ clock = 0
    /\ dst = d0
    /\ budget = b
    /\ snaps = 0
    /\ fails = 0
    /\ runPc = "lock"
    /\ runErr = "none"
    /\ parentDone = FALSE
    /\ started = 0
    /\ leaderCtxCancel = 0
    /\ leaderDone = {}
    /\ deposed = {}
    /\ rlPc = [s \in Scopes |-> "idle"]
    /\ srcMap = [s \in Scopes |-> {}]
    /\ dstMap = [s \in Scopes |-> {}]
    /\ todo = [s \in Scopes |-> {}]
    /\ hostsToAdd = [s \in Scopes |-> {}]
    /\ rlErr = [s \in Scopes |-> "none"]
    /\ addCh = [s \in Scopes |-> <<>>]
    /\ removeCh = [s \in Scopes |-> <<>>]
    /\ addClosed = [s \in Scopes |-> FALSE]
    /\ removeClosed = [s \in Scopes |-> FALSE]
    /\ bgPc = [s \in Scopes |-> "idle"]
    /\ itemMap = [s \in Scopes |-> [k \in {} |-> 0]]
    /\ q = [s \in Scopes |-> {}]
    /\ nextItem = [s \in Scopes |-> 1]
    /\ timerSet = [s \in Scopes |-> FALSE]
    /\ timerAt = [s \in Scopes |-> 0]
    /\ addLog = {}
    /\ removeLog = {}
    /\ sinceAt = [s \in Scopes |-> [k \in {} |-> 0]]
    /\ flapped = [s \in Scopes |-> {}]
    /\ inSync = [s \in Scopes |-> TRUE]
    /\ snapNotif = [s \in Scopes |-> {}]
    /\ snapReq = [s \in Scopes |-> {}]
    /\ snapAdd = [s \in Scopes |-> <<>>]
    /\ nRecv = [s \in Scopes |-> 0]
    /\ nGet = [s \in Scopes |-> 0]
    /\ debounced = {}

\* The initial states under environment b: the destination holds any
\* targets of the IPs in use.
InitEnv(b) == \E d0 \in {S \in TargetSets : KeysOf(S) \subseteq b.ips} : InitWith(d0, b)

\* One election and one snapshot.
Init == InitEnv([scopes |-> 1, snaps |-> 1, fails |-> MaxFails, ips |-> IPs])

\* A nil dereference in bgRemove ends the process: nothing runs after it.
Alive == \A s \in Scopes : bgPc[s] # "panic"

\* ----------------------------------------------------------- environment
\* A second of wall-clock time passes.
Tick ==
    /\ Alive
    /\ clock < MaxTime
    /\ clock' = clock + 1
    /\ UNCHANGED <<dst, budget, snaps, fails, runVars, rlVars, chVars, bgVars, snapVars, logVars>>

\* The caller of Run cancels Run's ctx.
ParentCancel ==
    /\ Alive
    /\ ~parentDone
    /\ parentDone' = TRUE
    /\ UNCHANGED <<runPc, runErr, started, leaderCtxCancel, leaderDone, deposed>>
    /\ UNCHANGED <<envVars, rlVars, chVars, bgVars, snapVars, logVars>>

\* ------------------------------------------------------------ Syncer.Run
\* Mutant of the lock check: the error of Locker.Lock is recorded but Run
\* goes on into its loop.
AfterLockIgnoringErr(ok) == "loop"

\* Where Run continues after Locker.Lock: `if err != nil { return err }`.
AfterLock(ok) == IF ok THEN "loop" ELSE "done"

\* Locker.Lock returns: with an error Run returns it, otherwise Run enters
\* its loop.
RunLock ==
    /\ Alive
    /\ runPc = "lock"
    /\ \E ok \in BOOLEAN :
        /\ runPc' = AfterLock(ok)
        /\ runErr' = IF ok THEN "none" ELSE "lock"
    /\ UNCHANGED <<parentDone, started, leaderCtxCancel, leaderDone, deposed>>
    /\ UNCHANGED <<envVars, rlVars, chVars, bgVars, snapVars, logVars>>

\* case <-ctx.Done(): cancel the held scope, return ctx.Err().
RunCtxDone ==
    /\ Alive
    /\ runPc = "loop"
    /\ parentDone
    /\ leaderDone' = IF leaderCtxCancel # 0 THEN leaderDone \cup {leaderCtxCancel}
                     ELSE leaderDone
    /\ runPc' = "done"
    /\ runErr' = "ctx"
    /\ UNCHANGED <<parentDone, started, leaderCtxCancel, deposed>>
    /\ UNCHANGED <<envVars, rlVars, chVars, bgVars, snapVars, logVars>>

\* case elected := <-electedCh with elected = true: a new leaderCtx and
\* cancel func replace the held ones and runLeader is started in it.
RunElectedTrue ==
    /\ Alive
    /\ runPc = "loop"
    /\ started < budget.scopes
    /\ started' = started + 1
    /\ leaderCtxCancel' = started + 1
    /\ rlPc' = [rlPc EXCEPT ![started + 1] = "start"]
    /\ UNCHANGED <<runPc, runErr, parentDone, leaderDone, deposed>>
    /\ UNCHANGED <<srcMap, dstMap, todo, hostsToAdd, rlErr>>
    /\ UNCHANGED <<envVars, chVars, bgVars, snapVars, logVars>>

\* case elected := <-electedCh with elected = false: the held cancel func,
\* if any, is called.
RunElectedFalse ==
    /\ Alive
    /\ runPc = "loop"
    /\ leaderDone' = IF leaderCtxCancel # 0 THEN leaderDone \cup {leaderCtxCancel}
                     ELSE leaderDone
    /\ deposed' = IF leaderCtxCancel # 0 THEN deposed \cup {leaderCtxCancel}
                  ELSE deposed
    /\ UNCHANGED <<runPc, runErr, parentDone, started, leaderCtxCancel>>
    /\ UNCHANGED <<envVars, rlVars, chVars, bgVars, snapVars, logVars>>

\* ------------------------------------------------------ Syncer.runLeader
\* Mutants of the diff: whole targets are compared, Port included.
HostsToAddByValue(srcM, dstM) == {t \in srcM : t \notin dstM}

HostsToRemoveByValue(srcM, dstM) == {t \in dstM : t \notin srcM}

\* The diff of one snapshot: the maps are keyed by target.IP.
HostsToAdd(srcM, dstM) == {t \in srcM : t.IP \notin KeysOf(dstM)}

HostsToRemove(srcM, dstM) == {t \in dstM : t.IP \notin KeysOf(srcM)}

\* Where runLeader continues once the additions of a snapshot are done.
AfterAdds(srcM, dstM) == IF HostsToRemove(srcM, dstM) = {} THEN "wait" ELSE "rems"

\* Mutant of the order within a snapshot: the additions are skipped and the
\* removals come first.
AfterGetRemovalsFirst(srcM, dstM) == AfterAdds(srcM, dstM)

\* Where runLeader continues once the maps of a snapshot are built.
AfterGet(srcM, dstM) == IF HostsToAdd(srcM, dstM) = {} THEN AfterAdds(srcM, dstM) ELSE "adds"

\* The keys the range loop entered at position pc has to act on.
LoopKeys(pc, srcM, dstM) ==
    CASE pc = "adds" -> HostsToAdd(srcM, dstM)
      [] pc = "rems" -> HostsToRemove(srcM, dstM)
      [] OTHER -> {}

\* runLeader up to its loop: the channels are made, bgRemove is started
\* (its timer t is armed with defaultDuration) and Src.Subscribe is called;
\* an error of Subscribe makes runLeader return.
RlStart(s) ==
    /\ Alive
    /\ rlPc[s] = "start"
    /\ bgPc' = [bgPc EXCEPT ![s] = "select"]
    /\ timerSet' = [timerSet EXCEPT ![s] = TRUE]
    /\ timerAt' = [timerAt EXCEPT ![s] = clock + defaultDuration]
    /\ \E ok \in Outcomes :
        /\ rlPc' = [rlPc EXCEPT ![s] = IF ok THEN "wait" ELSE "closeAdd"]
        /\ rlErr' = [rlErr EXCEPT ![s] = IF ok THEN @ ELSE "subscribe"]
        /\ fails' = IF ok THEN fails ELSE fails + 1
    /\ UNCHANGED <<clock, dst, budget, snaps, srcMap, dstMap, todo, hostsToAdd>>
    /\ UNCHANGED <<itemMap, q, nextItem>>
    /\ UNCHANGED <<runVars, chVars, snapVars, logVars>>

\* select case <-ctx.Done(): return ctx.Err().
RlCtxDone(s) ==
    /\ Alive
    /\ rlPc[s] = "wait"
    /\ CtxDone(s)
    /\ rlPc' = [rlPc EXCEPT ![s] = "closeAdd"]
    /\ rlErr' = [rlErr EXCEPT ![s] = "ctx"]
    /\ UNCHANGED <<srcMap, dstMap, todo, hostsToAdd>>
    /\ UNCHANGED <<envVars, runVars, chVars, bgVars, snapVars, logVars>>

\* History: the second at which each key's pending absence began.  A key
\* absent from the snapshot and present in the destination is pending; its
\* absence began now unless it was pending already.
AbsentSince(since, srcTargets, dstTargets, now) ==
    [k \in KeysOf(dstTargets) \ KeysOf(srcTargets) |->
        IF k \in DOMAIN since THEN since[k] ELSE now]

\* History: the keys that are back in the source less than RemoveDelay after
\* their absence began, for as long as they stay in the source.
Flapped(fl, since, srcTargets, now) ==
    {k \in KeysOf(srcTargets) :
        k \in fl \/ (k \in DOMAIN since /\ now < since[k] + RemoveDelay)}

\* select case srcTargets = <-srcCh, then Dst.GetTargets and the two maps.
\* An error of GetTargets makes runLeader return.
RlSnapshot(s) ==
    /\ Alive
    /\ rlPc[s] = "wait"
    /\ snaps < budget.snaps
    /\ snaps' = snaps + 1
    /\ nRecv' = [nRecv EXCEPT ![s] = @ + 1]
    /\ nGet' = [nGet EXCEPT ![s] = @ + 1]
    /\ snapNotif' = [snapNotif EXCEPT ![s] = {}]
    /\ snapReq' = [snapReq EXCEPT ![s] = {}]
    /\ snapAdd' = [snapAdd EXCEPT ![s] = <<>>]
    /\ hostsToAdd' = [hostsToAdd EXCEPT ![s] = {}]
    /\ \E srcTargets \in {S \in SrcSets : KeysOf(S) \subseteq budget.ips}, ok \in Outcomes :
        /\ srcMap' = [srcMap EXCEPT ![s] = srcTargets]
        /\ IF ok
           THEN /\ dstMap' = [dstMap EXCEPT ![s] = dst]
                /\ rlPc' = [rlPc EXCEPT ![s] = AfterGet(srcTargets, dst)]
                /\ todo' = [todo EXCEPT ![s] =
                               LoopKeys(AfterGet(srcTargets, dst), srcTargets, dst)]
                /\ sinceAt' = [sinceAt EXCEPT ![s] = AbsentSince(@, srcTargets, dst, clock)]
                /\ flapped' = [flapped EXCEPT ![s] = Flapped(@, sinceAt[s], srcTargets, clock)]
                /\ inSync' = [inSync EXCEPT ![s] = @ /\ KeysOf(srcTargets) = KeysOf(dst)]
                /\ rlErr' = rlErr
                /\ fails' = fails
           ELSE /\ dstMap' = [dstMap EXCEPT ![s] = {}]
                /\ rlPc' = [rlPc EXCEPT ![s] = "closeAdd"]
                /\ todo' = [todo EXCEPT ![s] = {}]
                /\ UNCHANGED <<sinceAt, flapped, inSync>>
                /\ rlErr' = [rlErr EXCEPT ![s] = "get"]
                /\ fails' = fails + 1
    /\ UNCHANGED <<clock, dst, budget>>
    /\ UNCHANGED <<runVars, chVars, bgVars, logVars>>

\* One iteration of the range over srcMap that finds a key missing from
\* dstMap: append to hostsToAdd and send on addCh (blocks while addCh is full).
RlNotify(s) ==
    /\ Alive
    /\ rlPc[s] = "adds"
    /\ Len(addCh[s]) < ChanCap
    /\ \E target \in todo[s] :
        /\ hostsToAdd' = [hostsToAdd EXCEPT ![s] = @ \cup {target}]
        /\ addCh' = [addCh EXCEPT ![s] = Append(@, target)]
        /\ snapNotif' = [snapNotif EXCEPT ![s] = @ \cup {target}]
        /\ todo' = [todo EXCEPT ![s] = @ \ {target}]
        /\ rlPc' = [rlPc EXCEPT ![s] = IF todo[s] = {target} THEN "addcall" ELSE "adds"]
    /\ UNCHANGED <<srcMap, dstMap, rlErr, removeCh, addClosed, removeClosed>>
    /\ UNCHANGED <<sinceAt, flapped, inSync, snapReq, snapAdd, nRecv, nGet>>
    /\ UNCHANGED <<envVars, runVars, bgVars, logVars>>

\* Dst.AddTargets(ctx, hostsToAdd); an error makes runLeader return.
RlAddTargets(s) ==
    /\ Alive
    /\ rlPc[s] = "addcall"
    /\ \E ok \in Outcomes :
        /\ addLog' = addLog \cup {[scope |-> s, n |-> nRecv[s], ips |-> KeysOf(hostsToAdd[s]),
                                   ok |-> ok, late |-> s \in deposed]}
        /\ snapAdd' = [snapAdd EXCEPT ![s] = Append(@, hostsToAdd[s])]
        /\ IF ok
           THEN /\ dst' = DstAdd(dst, hostsToAdd[s])
                /\ rlPc' = [rlPc EXCEPT ![s] = AfterAdds(srcMap[s], dstMap[s])]
                /\ todo' = [todo EXCEPT ![s] =
                               LoopKeys(AfterAdds(srcMap[s], dstMap[s]), srcMap[s], dstMap[s])]
                /\ rlErr' = rlErr
                /\ fails' = fails
           ELSE /\ dst' = dst
                /\ rlPc' = [rlPc EXCEPT ![s] = "closeAdd"]
                /\ todo' = [todo EXCEPT ![s] = {}]
                /\ rlErr' = [rlErr EXCEPT ![s] = "add"]
                /\ fails' = fails + 1
    /\ UNCHANGED <<clock, budget, snaps, srcMap, dstMap, hostsToAdd>>
    /\ UNCHANGED <<sinceAt, flapped, inSync, snapNotif, snapReq, nRecv, nGet>>
    /\ UNCHANGED <<removeLog, debounced>>
    /\ UNCHANGED <<runVars, chVars, bgVars>>

\* One iteration of the range over dstMap that finds a key missing from
\* srcMap: send on removeCh (blocks while removeCh is full).
RlRequest(s) ==
    /\ Alive
    /\ rlPc[s] = "rems"
    /\ Len(removeCh[s]) < ChanCap
    /\ \E target \in todo[s] :
        /\ removeCh' = [removeCh EXCEPT ![s] = Append(@, target)]
        /\ snapReq' = [snapReq EXCEPT ![s] = @ \cup {target}]
        /\ todo' = [todo EXCEPT ![s] = @ \ {target}]
        /\ rlPc' = [rlPc EXCEPT ![s] = IF todo[s] = {target} THEN "wait" ELSE "rems"]
    /\ UNCHANGED <<srcMap, dstMap, hostsToAdd, rlErr, addCh, addClosed, removeClosed>>
    /\ UNCHANGED <<sinceAt, flapped, inSync, snapNotif, snapAdd, nRecv, nGet>>
    /\ UNCHANGED <<envVars, runVars, bgVars, logVars>>

\* runLeader returns; its deferred calls run last-in first-out: close(addCh),
\* close(removeCh), cancel().
RlCloseAdd(s) ==
    /\ Alive
    /\ rlPc[s] = "closeAdd"
    /\ addClosed' = [addClosed EXCEPT ![s] = TRUE]
    /\ rlPc' = [rlPc EXCEPT ![s] = "closeRemove"]
    /\ UNCHANGED <<srcMap, dstMap, todo, hostsToAdd, rlErr, addCh, removeCh, removeClosed>>
    /\ UNCHANGED <<envVars, runVars, bgVars, snapVars, logVars>>

RlCloseRemove(s) ==
    /\ Alive
    /\ rlPc[s] = "closeRemove"
    /\ removeClosed' = [removeClosed EXCEPT ![s] = TRUE]
    /\ rlPc' = [rlPc EXCEPT ![s] = "cancel"]
    /\ UNCHANGED <<srcMap, dstMap, todo, hostsToAdd, rlErr, addCh, removeCh, addClosed>>
    /\ UNCHANGED <<envVars, runVars, bgVars, snapVars, logVars>>

RlCancel(s) ==
    /\ Alive
    /\ rlPc[s] = "cancel"
    /\ rlPc' = [rlPc EXCEPT ![s] = "done"]
    /\ UNCHANGED <<srcMap, dstMap, todo, hostsToAdd, rlErr>>
    /\ UNCHANGED <<envVars, runVars, chVars, bgVars, snapVars, logVars>>

\* The return values of runLeader that are errors of a backend call.
FatalErrs == {"subscribe", "get", "add"}

\* ------------------------------------------------------- Syncer.bgRemove
\* q.Head(): an item of least priority (nil when the queue is empty); the
\* order among items of equal priority is the heap's business.
QHeads(Q) == {e \in Q : \A f \in Q : e.at <= f.at}

\* The priority q.Head() returns for a non-empty queue.
QHeadAt(Q) == (CHOOSE e \in QHeads(Q) : TRUE).at

\* q.Push(value, priority): the queue with the new item.
QPush(Q, id, target, at) == Q \cup {[id |-> id, tgt |-> target, at |-> at]}

\* q.Remove(item): the queue without the item.
QRemove(Q, id) == {e \in Q : e.id # id}

\* The timer is touched on a removal request when the queue is empty or
\* the new deadline is earlier than the head's.
Rearm(Q, removeUnixTime) == Q = {} \/ removeUnixTime < QHeadAt(Q)

\* itemMap[key] = item
MapPut(m, key, id) == [k \in DOMAIN m \cup {key} |-> IF k = key THEN id ELSE m[k]]

\* delete(itemMap, key)
MapDelete(m, key) == [k \in DOMAIN m \ {key} |-> m[k]]

\* select case <-ctx.Done(): return.
BgCtxDone(s) ==
    /\ Alive
    /\ bgPc[s] = "select"
    /\ CtxDone(s)
    /\ bgPc' = [bgPc EXCEPT ![s] = "done"]
    /\ UNCHANGED <<itemMap, q, nextItem, timerSet, timerAt>>
    /\ UNCHANGED <<envVars, runVars, rlVars, chVars, snapVars, logVars>>

\* select case toRemove := <-removeCh.  `if !t.Stop() { <-t.C }` returns
\* when t is pending (Stop reports true) or has fired with its tick not yet
\* received (the receive takes it); when the tick was already received and
\* t was not reset since, the receive from t.C never returns.
BgRemoveReq(s) ==
    /\ Alive
    /\ bgPc[s] = "select"
    /\ removeCh[s] # <<>>
    /\ removeCh' = [removeCh EXCEPT ![s] = Tail(@)]
    /\ LET toRemove == Head(removeCh[s])
           removeUnixTime == clock + RemoveDelay
       IN IF Rearm(q[s], removeUnixTime) /\ ~timerSet[s]
          THEN /\ bgPc' = [bgPc EXCEPT ![s] = "stuck"]
               /\ UNCHANGED <<itemMap, q, nextItem, timerSet, timerAt>>
          ELSE /\ timerAt' = [timerAt EXCEPT ![s] =
                                 IF Rearm(q[s], removeUnixTime) THEN clock + RemoveDelay ELSE @]
               /\ q' = [q EXCEPT ![s] = QPush(@, nextItem[s], toRemove, removeUnixTime)]
               /\ itemMap' = [itemMap EXCEPT ![s] = MapPut(@, Key(toRemove), nextItem[s])]
               /\ nextItem' = [nextItem EXCEPT ![s] = @ + 1]
               /\ UNCHANGED <<bgPc, timerSet>>
    /\ UNCHANGED <<addCh, addClosed, removeClosed>>
    /\ UNCHANGED <<envVars, runVars, rlVars, snapVars, logVars>>

\* select case toRemove := <-removeCh on the closed, drained channel: the
\* nil target passes the timer handling and toRemove.Key() dereferences it.
BgRemoveNil(s) ==
    /\ Alive
    /\ bgPc[s] = "select"
    /\ removeCh[s] = <<>>
    /\ removeClosed[s]
    /\ IF Rearm(q[s], clock + RemoveDelay) /\ ~timerSet[s]
       THEN /\ bgPc' = [bgPc EXCEPT ![s] = "stuck"]
            /\ timerAt' = timerAt
       ELSE /\ bgPc' = [bgPc EXCEPT ![s] = "panic"]
            /\ timerAt' = [timerAt EXCEPT ![s] =
                              IF Rearm(q[s], clock + RemoveDelay) THEN clock + RemoveDelay ELSE @]
    /\ UNCHANGED <<itemMap, q, nextItem, timerSet>>
    /\ UNCHANGED <<envVars, runVars, rlVars, chVars, snapVars, logVars>>

\* select case toAdd := <-addCh: a pending item of the key is removed from
\* the queue and the index.
BgAdd(s) ==
    /\ Alive
    /\ bgPc[s] = "select"
    /\ addCh[s] # <<>>
    /\ addCh' = [addCh EXCEPT ![s] = Tail(@)]
    /\ LET key == Key(Head(addCh[s]))
       IN /\ IF key \in DOMAIN itemMap[s]
             THEN /\ q' = [q EXCEPT ![s] = QRemove(@, itemMap[s][key])]
                  /\ itemMap' = [itemMap EXCEPT ![s] = MapDelete(@, key)]
             ELSE UNCHANGED <<q, itemMap>>
          /\ debounced' = debounced \cup
                {<<s, e.id>> : e \in {f \in q[s] : Key(f.tgt) = key /\ clock < f.at}}
    /\ UNCHANGED <<bgPc, nextItem, timerSet, timerAt>>
    /\ UNCHANGED <<removeCh, addClosed, removeClosed, addLog, removeLog>>
    /\ UNCHANGED <<envVars, runVars, rlVars, snapVars>>

\* select case toAdd := <-addCh on the closed, drained channel:
\* toAdd.Key() dereferences the nil target.
BgAddNil(s) ==
    /\ Alive
    /\ bgPc[s] = "select"
    /\ addCh[s] = <<>>
    /\ addClosed[s]
    /\ bgPc' = [bgPc EXCEPT ![s] = "panic"]
    /\ UNCHANGED <<itemMap, q, nextItem, timerSet, timerAt>>
    /\ UNCHANGED <<envVars, runVars, rlVars, chVars, snapVars, logVars>>

\* The queue after Dst.RemoveTargets returned for the head item:
\* `if err == nil { q.Pop() }`.
AfterRemove(Q, id, ok) == IF ok THEN QRemove(Q, id) ELSE Q

\* The branch the timer case takes for a head item: TRUE is the reschedule
\* branch, FALSE the removal branch.
Reschedule(headUnixTime, now) == headUnixTime < now

\* select case <-t.C.  With an empty queue nothing else happens and t stays
\* unset.  In the reschedule branch t.Stop() reports false (t has fired and
\* its tick was just received) and the receive from t.C never returns.
\* Otherwise Dst.RemoveTargets is called for the head; on success the head
\* is popped and its key deleted from the index; then t is reset to the
\* head's time.
BgTimer(s) ==
    /\ Alive
    /\ bgPc[s] = "select"
    /\ timerSet[s]
    /\ clock >= timerAt[s]
    /\ IF q[s] = {}
       THEN /\ timerSet' = [timerSet EXCEPT ![s] = FALSE]
            /\ UNCHANGED <<bgPc, itemMap, q, timerAt, dst, fails, removeLog>>
       ELSE \E headItem \in QHeads(q[s]) :
            IF Reschedule(headItem.at, clock)
            THEN /\ timerSet' = [timerSet EXCEPT ![s] = FALSE]
                 /\ bgPc' = [bgPc EXCEPT ![s] = "stuck"]
                 /\ UNCHANGED <<itemMap, q, timerAt, dst, fails, removeLog>>
            ELSE \E ok \in Outcomes :
                 /\ removeLog' = removeLog \cup
                       {[scope |-> s, id |-> headItem.id, ip |-> Key(headItem.tgt),
                         ok |-> ok, late |-> s \in deposed,
                         fatal |-> rlErr[s] \in FatalErrs /\ rlPc[s] = "done",
                         early |-> clock < headItem.at,
                         flap |-> Key(headItem.tgt) \in flapped[s],
                         deb |-> <<s, headItem.id>> \in debounced]}
                 /\ dst' = IF ok THEN DstRemove(dst, headItem.tgt) ELSE dst
                 /\ q' = [q EXCEPT ![s] = AfterRemove(@, headItem.id, ok)]
                 /\ itemMap' = [itemMap EXCEPT ![s] =
                                   IF ok THEN MapDelete(@, Key(headItem.tgt)) ELSE @]
                 /\ fails' = IF ok THEN fails ELSE fails + 1
                 /\ timerSet' = [timerSet EXCEPT ![s] = TRUE]
                 /\ timerAt' = [timerAt EXCEPT ![s] = headItem.at]
                 /\ bgPc' = bgPc
    /\ UNCHANGED <<clock, budget, snaps, nextItem, addLog, debounced>>
    /\ UNCHANGED <<runVars, rlVars, chVars, snapVars>>

\* ------------------------------------------------------------------ Next
RunStep == RunLock \/ RunCtxDone \/ RunElectedTrue \/ RunElectedFalse

RlStep(s) ==
    \/ RlStart(s) \/ RlCtxDone(s) \/ RlSnapshot(s) \/ RlNotify(s) \/ RlAddTargets(s)
    \/ RlRequest(s) \/ RlCloseAdd(s) \/ RlCloseRemove(s) \/ RlCancel(s)

BgStep(s) ==
    \/ BgCtxDone(s) \/ BgRemoveReq(s) \/ BgRemoveNil(s) \/ BgAdd(s) \/ BgAddNil(s)
    \/ BgTimer(s)

Next ==
    \/ Tick
    \/ ParentCancel
    \/ RunStep
    \/ \E s \in Scopes : RlStep(s)
    \/ \E s \in Scopes : BgStep(s)

Spec == Init /\ [][Next]_vars

\* Several elections, one snapshot.
InitElect == InitEnv([scopes |-> MaxScopes, snaps |-> 1, fails |-> 0, ips |-> {1}])

ElectSpec == InitElect /\ [][Next]_vars

\* One leader term that nobody interrupts: the Locker never signals false
\* and the caller never cancels Run's ctx.
TermStep(s) ==
    \/ RlStart(s) \/ RlSnapshot(s) \/ RlNotify(s) \/ RlAddTargets(s) \/ RlRequest(s)
    \/ RlCloseAdd(s) \/ RlCloseRemove(s) \/ RlCancel(s)

TermNext ==
    \/ Tick
    \/ RunLock
    \/ RunElectedTrue
    \/ \E s \in Scopes : TermStep(s)
    \/ \E s \in Scopes : BgStep(s)

\* One uninterrupted leader term with MaxSnaps snapshots.
InitTerm == InitEnv([scopes |-> 1, snaps |-> MaxSnaps, fails |-> MaxFails, ips |-> IPs])

TermSpec == InitTerm /\ [][TermNext]_vars

\* One uninterrupted leader term over a single IP, with one more snapshot.
InitFlap == InitEnv([scopes |-> 1, snaps |-> MaxSnaps + 1, fails |-> 1, ips |-> {1}])

FlapSpec == InitFlap /\ [][TermNext]_vars

\* The scheduling of one uninterrupted term: time passes, and every
\* goroutine that can take a step eventually takes one.
FairTermSpec ==
    /\ InitTerm
    /\ [][TermNext]_vars
    /\ WF_vars(Tick)
    /\ WF_vars(RunLock \/ RunElectedTrue)
    /\ \A s \in Scopes : WF_vars(TermStep(s)) /\ WF_vars(BgStep(s))

\* The scheduling of a run that may be shut down: time passes, Run reacts to
\* what is ready, and every goroutine that can take a step eventually takes
\* one.
FairSpec ==
    /\ Init
    /\ [][Next]_vars
    /\ WF_vars(Tick)
    /\ WF_vars(RunLock \/ RunCtxDone \/ RunElectedTrue)
    /\ \A s \in Scopes : WF_vars(RlStep(s)) /\ WF_vars(BgStep(s))

\* ---------------------------------------------------------------- claims
\* runLeader of scope s has been started and has not returned.
Running(s) == rlPc[s] \notin {"idle", "done"}

\* runLeader of scope s is returning or has returned.
TermOver(s) == rlPc[s] \in {"closeAdd", "closeRemove", "cancel", "done"}

\* The ids queue items can get.
ItemIds == 1..((MaxSnaps + 1) * Cardinality(IPs))

\* C1: once Run has reacted to a false signal, the scope it cancelled
\* initiates no AddTargets and no RemoveTargets call.
C1SingleWriter ==
    /\ \A e \in addLog : ~e.late
    /\ \A e \in removeLog : ~e.late

\* C2: at most one started scope is neither cancelled nor returned.
C2OneScope == Cardinality({s \in Scopes : Running(s) /\ ~LeaderCtxDone(s)}) <= 1

\* C3: no RemoveTargets call is issued for a target that is back in the
\* source less than RemoveDelay after the snapshot that first lacked it.
C3NoFlapRemoval == \A e \in removeLog : ~e.flap

\* C4: an item waiting in the queue of a running term, with its deadline
\* within the explored time, eventually leaves the queue: removed from the
\* destination by a successful RemoveTargets call, or cancelled by an
\* add-notification.
C4EventualRemoval ==
    \A s \in Scopes, id \in ItemIds :
        (\E e \in q[s] : e.id = id /\ e.at <= MaxTime)
            ~> ((\A e \in q[s] : e.id # id) \/ TermOver(s))

\* C5: no RemoveTargets call is issued for an item before the item's
\* deadline, the second of its request plus RemoveDelay.
C5NoEarlyRemoval == \A e \in removeLog : ~e.early

\* C6: no RemoveTargets call is issued for an item after an add-notification
\* for the item's key was handled before the item's deadline.
C6Debounce == \A e \in removeLog : ~e.deb

\* Nothing is left to do for the last snapshot of scope s: runLeader waits,
\* both channels are drained, and bgRemove waits with an empty queue or
\* will never run again.
Settled(s) ==
    /\ rlPc[s] = "wait"
    /\ nRecv[s] > 0
    /\ addCh[s] = <<>>
    /\ removeCh[s] = <<>>
    /\ \/ bgPc[s] = "stuck"
       \/ bgPc[s] = "select" /\ q[s] = {}

\* C7: when every backend call succeeded and nothing is left to do for the
\* last snapshot, the destination holds exactly the snapshot's keys.
C7Converged ==
    \A s \in Scopes : (Settled(s) /\ fails = 0) => KeysOf(dst) = KeysOf(srcMap[s])

\* C8: for the snapshot a scope is working on, with A the keys of the source
\* snapshot missing from the destination snapshot and R the keys of the
\* destination snapshot missing from the source snapshot: add-notifications
\* go to keys of A only and removal requests to keys of R only; at most one
\* AddTargets call is issued, with exactly the keys A, after exactly the
\* keys A were notified; and once the snapshot is done, exactly A was
\* notified, exactly R was requested, and AddTargets was called iff A is
\* not empty.
C8DiffCorrect ==
    \A s \in Scopes :
        LET A == KeysOf(srcMap[s]) \ KeysOf(dstMap[s])
            R == KeysOf(dstMap[s]) \ KeysOf(srcMap[s])
        IN /\ KeysOf(snapNotif[s]) \subseteq A
           /\ KeysOf(snapReq[s]) \subseteq R
           /\ Len(snapAdd[s]) <= 1
           /\ Len(snapAdd[s]) = 1 =>
                 /\ KeysOf(snapAdd[s][1]) = A
                 /\ KeysOf(snapNotif[s]) = A
                 /\ A # {}
           /\ (rlPc[s] = "wait" /\ nRecv[s] > 0) =>
                 /\ KeysOf(snapNotif[s]) = A
                 /\ KeysOf(snapReq[s]) = R
                 /\ Len(snapAdd[s]) = (IF A = {} THEN 0 ELSE 1)

\* C8 witness: a finished snapshot with one key added and another key held
\* by both sides on different ports.
C8Witness ==
    \E s \in Scopes :
        /\ rlPc[s] = "wait"
        /\ Len(snapAdd[s]) = 1
        /\ KeysOf(snapAdd[s][1]) = {2}
        /\ [IP |-> 1, Port |-> 80] \in srcMap[s]
        /\ [IP |-> 1, Port |-> 81] \in dstMap[s]

\* C9: a snapshot whose keys are the destination's keys causes no
\* add-notification, no AddTargets call and no removal request; a scope
\* that has met only such snapshots has issued no AddTargets and no
\* RemoveTargets call; and GetTargets was called once per snapshot received.
C9Idempotent ==
    \A s \in Scopes :
        /\ nGet[s] = nRecv[s]
        /\ (nRecv[s] > 0 /\ KeysOf(srcMap[s]) = KeysOf(dstMap[s])) =>
              /\ snapNotif[s] = {}
              /\ snapReq[s] = {}
              /\ snapAdd[s] = <<>>
        /\ inSync[s] =>
              /\ \A e \in addLog : e.scope # s
              /\ \A e \in removeLog : e.scope # s

\* C9 witness: two snapshots in succession that both found the destination
\* holding the source's key, on another port.
C9Witness ==
    \E s \in Scopes :
        /\ nRecv[s] = 2
        /\ inSync[s]
        /\ rlPc[s] = "wait"
        /\ srcMap[s] = {[IP |-> 1, Port |-> 80]}
        /\ dstMap[s] = {[IP |-> 1, Port |-> 81]}

\* C10: a target that was never added is removed by at most one successful
\* RemoveTargets call, and that success leaves no queue item of its key.
C10OneRemoval ==
    \A s \in Scopes, ip \in IPs :
        LET done == {e \in removeLog : e.scope = s /\ e.ip = ip /\ e.ok}
        IN (\A a \in addLog : ip \notin a.ips) =>
              /\ Cardinality(done) <= 1
              /\ done # {} => \A e \in q[s] : Key(e.tgt) # ip

\* C11: once Subscribe, GetTargets or AddTargets has returned an error,
\* runLeader of that scope is returning (it takes no further snapshot and
\* sends nothing more), and once it has returned and cancelled its scope,
\* bgRemove of that scope issues no RemoveTargets call for the entries
\* still pending.
C11FatalStops ==
    /\ \A s \in Scopes : rlErr[s] \in FatalErrs => TermOver(s)
    /\ \A e \in removeLog : ~e.fatal

\* Run is leading with scope s: it waits in its loop, the last signal it
\* handled was the true that started s, and nothing has cancelled s.
Leading(s) ==
    /\ runPc = "loop"
    /\ leaderCtxCancel = s
    /\ ~LeaderCtxDone(s)

\* C12: Run is never leading with a scope whose runLeader has returned the
\* error of a backend call: that error ends the term.
C12ErrorEndsTerm ==
    \A s \in Scopes : Leading(s) => ~(rlPc[s] = "done" /\ rlErr[s] \in FatalErrs)

\* C13: when Locker.Lock has returned an error, Run has returned that
\* error, and no runLeader and no bgRemove was started, nothing was
\* subscribed or fetched, and no destination call was made.
C13LockFailure ==
    runErr = "lock" =>
        /\ runPc = "done"
        /\ started = 0
        /\ leaderCtxCancel = 0
        /\ \A s \in Scopes : rlPc[s] = "idle" /\ bgPc[s] = "idle" /\ nRecv[s] = 0 /\ nGet[s] = 0
        /\ addLog = {} /\ removeLog = {}
        /\ snaps = 0 /\ fails = 0

\* C13 witness: the lock failed, and afterwards time went by and the
\* caller cancelled Run's ctx.
C13Witness == runErr = "lock" /\ clock = MaxTime /\ parentDone

\* Every goroutine of the run has returned (or never started).
AllStopped ==
    /\ runPc = "done"
    /\ \A s \in Scopes : rlPc[s] \in {"idle", "done"} /\ bgPc[s] \in {"idle", "done"}

\* C14: once Run's ctx is cancelled, Run returns and every runLeader and
\* bgRemove started under it eventually returns (a crash of the process
\* aside).
C14Shutdown == parentDone ~> (AllStopped \/ ~Alive)

\* C15: the queue of a scope never holds two items of the same key.
C15UniqueKey ==
    \A s \in Scopes : \A e, f \in q[s] : Key(e.tgt) = Key(f.tgt) => e = f

\* C16: in every state bgRemove leaves behind, every queue item is the one
\* the index records for its key, and every index record is the id of an
\* item that is in the queue.
C16IndexConsistent ==
    \A s \in Scopes :
        /\ \A e \in q[s] :
              Key(e.tgt) \in DOMAIN itemMap[s] /\ itemMap[s][Key(e.tgt)] = e.id
        /\ \A k \in DOMAIN itemMap[s] :
              \E e \in q[s] : e.id = itemMap[s][k] /\ Key(e.tgt) = k

\* The AddTargets calls of the snapshot scope s is working on.
SnapAddCalls(s) == {e \in addLog : e.scope = s /\ e.n = nRecv[s]}

\* C17: when runLeader is about to send, or has sent, a removal request of
\* a snapshot, every add-notification of that snapshot was sent and, if
\* there was anything to add, the snapshot's AddTargets call has returned
\* without error; after a failed AddTargets call no removal request of
\* that snapshot is sent.
C17AddsBeforeRemovals ==
    \A s \in Scopes :
        LET A == KeysOf(srcMap[s]) \ KeysOf(dstMap[s])
        IN /\ (rlPc[s] = "rems" \/ snapReq[s] # {}) =>
                 /\ KeysOf(snapNotif[s]) = A
                 /\ A # {} => \E e \in SnapAddCalls(s) : e.ok /\ e.ips = A
                 /\ \A e \in SnapAddCalls(s) : e.ok
           /\ (\E e \in SnapAddCalls(s) : ~e.ok) => (snapReq[s] = {} /\ TermOver(s))

\* C17 witness: a snapshot with something to add and something to remove,
\* whose removal request has been sent.
C17Witness ==
    \E s \in Scopes :
        /\ snapReq[s] # {}
        /\ snapNotif[s] # {}
        /\ \E e \in SnapAddCalls(s) : e.ok

\* The failed RemoveTargets calls of scope s that a step adds to the log.
NewFailures(s) == {e \in removeLog' \ removeLog : e.scope = s /\ ~e.ok}

\* C18: a timer fire whose RemoveTargets call fails leaves the queue, the
\* index and the destination as they were, with bgRemove back at its
\* select, the timer armed and runLeader where it was; and while the item
\* of a failed call is still at the head of the queue, bgRemove is at its
\* select, where it receives removal requests and add-notifications.
C18FailureKeepsState ==
    /\ [][\A s \in Scopes :
             NewFailures(s) # {} =>
                 /\ q'[s] = q[s]
                 /\ itemMap'[s] = itemMap[s]
                 /\ dst' = dst
                 /\ bgPc'[s] = "select"
                 /\ timerSet'[s]
                 /\ rlPc' = rlPc
                 /\ rlErr' = rlErr]_vars
    /\ [](\A e \in removeLog :
             (~e.ok /\ \E h \in QHeads(q[e.scope]) : h.id = e.id) =>
                 bgPc[e.scope] # "stuck")

\* C19: bgRemove never waits anywhere but at its select, and a timer fire
\* that has called RemoveTargets and leaves the queue non-empty arms the
\* timer for the earliest deadline left in the queue.
C19NeverWedges ==
    /\ [](\A s \in Scopes : bgPc[s] # "stuck")
    /\ [][\A s \in Scopes :
             ({e \in removeLog' \ removeLog : e.scope = s} # {} /\ q'[s] # {}) =>
                 (timerSet'[s] /\ timerAt'[s] = QHeadAt(q'[s]))]_vars

\* C20: bgRemove never takes the nil that a closed channel yields for a
\* target message and calls Key() on it.
C20NoNilTarget == \A s \in Scopes : bgPc[s] # "panic"

====
